---- MODULE Spec2Model ----
(***************************************************************************)
(* A model of videostitcher.py: the path resolver safe_save_path and the   *)
(* linear export workflow of main.                                         *)
(*                                                                         *)
(* Strings are sequences of one-character strings, so that strip,          *)
(* os.path.join, os.path.splitext and the "-N" suffix are computed on the  *)
(* characters, as Python computes them.  Durations are whole ticks         *)
(* (the code uses float seconds).                                          *)
(***************************************************************************)
EXTENDS Integers, Sequences, FiniteSets, TLC

\* Python's None; a value v that may be None is held as <<v>>
None == <<>>

Some(v) == <<v>>

\* x or 0, for a duration attribute x
OrZero(x) == IF x = None \/ x[1] = 0 THEN 0 ELSE x[1]

(* ------------------------------ bounds ------------------------------- *)
MaxVideos == 2
MaxDur == 1
MaxAudioDur == 3
MaxCalls == 3

(* ----------------------------- strings ------------------------------- *)
Extension == <<".", "m", "p", "4">>

\* os.path.expanduser("~/Desktop")
Desktop == <<"/", "h", "/", "D">>

DefaultName == <<"U", "n", "t", "i", "t", "l", "e", "d", " ", "m", "u", "s", "i", "c",
                 " ", "v", "i", "d", "e", "o">>

MusicVideoSuffix == <<" ", "m", "u", "s", "i", "c", " ", "v", "i", "d", "e", "o">>

IsSpace(c) == c \in {" ", "\t", "\n"}

RECURSIVE LStrip(_)
LStrip(s) == IF s # <<>> /\ IsSpace(Head(s)) THEN LStrip(Tail(s)) ELSE s

RECURSIVE RStrip(_)
RStrip(s) ==
    IF s # <<>> /\ IsSpace(s[Len(s)]) THEN RStrip(SubSeq(s, 1, Len(s) - 1)) ELSE s

\* str.strip()
Strip(s) == RStrip(LStrip(s))

LowerChar(c) == CASE c = "Y" -> "y" [] c = "N" -> "n" [] OTHER -> c

\* str.lower()
Lower(s) == [k \in 1..Len(s) |-> LowerChar(s[k])]

\* the last position of character c in s[1..k], 0 when it has none
RECURSIVE RFindFrom(_, _, _)
RFindFrom(s, c, k) ==
    IF k = 0 THEN 0 ELSE IF s[k] = c THEN k ELSE RFindFrom(s, c, k - 1)

\* s.rfind(c) + 1
RFind(s, c) == RFindFrom(s, c, Len(s))

\* os.path.join(a, b) on POSIX
PathJoin(a, b) ==
    IF b # <<>> /\ Head(b) = "/" THEN b
    ELSE IF a = <<>> \/ a[Len(a)] = "/" THEN a \o b
    ELSE a \o <<"/">> \o b

\* os.path.basename(p)
Basename(p) == SubSeq(p, RFind(p, "/") + 1, Len(p))

\* os.path.splitext(p): the split is at the last dot of the last path
\* component, unless that component has only dots before it
Splitext(p) ==
    LET sepIndex == RFind(p, "/")
        dotIndex == RFind(p, ".")
    IN IF dotIndex > sepIndex
          /\ \E k \in (sepIndex + 1)..(dotIndex - 1) : p[k] # "."
       THEN <<SubSeq(p, 1, dotIndex - 1), SubSeq(p, dotIndex, Len(p))>>
       ELSE <<p, <<>>>>

Digits == <<"0", "1", "2", "3", "4", "5", "6", "7", "8", "9">>

\* str(n) for n >= 0, as the f-string formats i
RECURSIVE Str(_)
Str(n) == IF n < 10 THEN <<Digits[n + 1]>> ELSE Str(n \div 10) \o <<Digits[(n % 10) + 1]>>

(* ------------------------------ inputs ------------------------------- *)
\* base names a caller or the user may give
BaseNames ==
    { <<>>, <<" ">>, <<"a">>, <<" ", "a", " ">>, <<".">>, <<"a", "-", "1">>, DefaultName }

\* what the user may type at the name prompt of main
TypedNames == { <<>>, <<" ">>, <<"a">>, <<" ", "a", " ">>, <<".">> }

\* files that may already be on the desktop when the program starts
DesktopFile(nm) == PathJoin(Desktop, nm \o Extension)

InitialDesktops ==
    { {},
      {DesktopFile(<<"a">>)},
      {DesktopFile(<<"a">>), DesktopFile(<<"a", "-", "1">>)},
      {DesktopFile(<<"a">>), DesktopFile(<<"a", "-", "2">>)},
      {DesktopFile(<<".">>)},
      {DesktopFile(DefaultName)} }

VARIABLES
    fs,          \* the paths that exist on disk (os.path.exists)
    base_name,   \* the argument of the current safe_save_path call
    name, candidate, root, ext, i,   \* the locals of safe_save_path
    spc,         \* position in safe_save_path: "idle", "while", "return"
    checks,      \* os.path.exists calls made by the current safe_save_path call
    fsAtCall,    \* fs when the current safe_save_path call began
    returned,    \* what the caller of safe_save_path got, in call order:
                 \* [path, created], created when a file was then made at the path
    pc,          \* the workflow state main is in
    video_paths, clips, total_dur,
    audio_paths, audio, audio_dur,
    export_name, output_path,
    loops, seq, final_video, final,
    opened,      \* the media handles opened so far
    closed,      \* the media handles closed so far
    outcome,     \* why the run stopped early, "" when it did not
    called,      \* the external collaborators called so far
    written,     \* the files this run wrote
    loadAttempts \* iterations of the video-loading loop begun so far

sspVars == <<base_name, name, candidate, root, ext, i, spc, checks, fsAtCall>>

mainVars ==
    <<pc, video_paths, clips, total_dur, audio_paths, audio, audio_dur, export_name,
      output_path, loops, seq, final_video, final, opened, closed, outcome, called,
      written, loadAttempts>>

vars == <<fs, sspVars, returned, mainVars>>

(* -------------------------- safe_save_path --------------------------- *)
\* line 57: base_name.strip() or "Untitled music video"
EffectiveName(base) ==
    IF Strip(base) # <<>> THEN Strip(base) ELSE DefaultName

\* line 58
FirstCandidate(base, extension) ==
    PathJoin(Desktop, EffectiveName(base) \o extension)

\* line 62: f"{root}-{i}{ext}"
NumberedCandidate(r, n, e) == r \o <<"-">> \o Str(n) \o e

\* lines 56-60: the call, up to the first test of the while loop
\* (the singleton \E binds a computed value once)
SspEnter(base, extension) ==
    /\ spc = "idle"
    /\ \E first \in {FirstCandidate(base, extension)} :
          \E parts \in {Splitext(first)} :
             /\ base_name' = base
             /\ name' = EffectiveName(base)
             /\ candidate' = first
             /\ root' = parts[1]
             /\ ext' = parts[2]
    /\ i' = 1
    /\ checks' = 0
    /\ fsAtCall' = fs
    /\ spc' = "while"

\* the collision test made once, with "if" in place of "while"
SspWhileOnce ==
    /\ spc = "while"
    /\ checks' = checks + 1
    /\ spc' = "return"
    /\ IF candidate \in fs
       THEN /\ candidate' = NumberedCandidate(root, i, ext)
            /\ i' = i + 1
       ELSE UNCHANGED <<candidate, i>>
    /\ UNCHANGED <<base_name, name, root, ext, fsAtCall>>

\* the loop with the same suffix tried again: i is not advanced
SspWhileStuck ==
    /\ spc = "while"
    /\ checks' = checks + 1
    /\ IF candidate \in fs
       THEN /\ candidate' = NumberedCandidate(root, i, ext)
            /\ spc' = "while"
       ELSE /\ spc' = "return"
            /\ UNCHANGED candidate
    /\ UNCHANGED <<base_name, name, root, ext, i, fsAtCall>>

\* lines 61-64: one test of the while condition, and the body or the exit
SspWhile ==
    /\ spc = "while"
    /\ checks' = checks + 1
    /\ IF candidate \in fs
       THEN /\ candidate' = NumberedCandidate(root, i, ext)
            /\ i' = i + 1
            /\ spc' = "while"
       ELSE /\ spc' = "return"
            /\ UNCHANGED <<candidate, i>>
    /\ UNCHANGED <<base_name, name, root, ext, fsAtCall>>

(* -------------------------- inputs of main --------------------------- *)
VideoFiles == {"a.mov", "b.mov", "c.mov"}

\* what the multi-file dialog can return: distinct paths, in the user's order
RECURSIVE Selections(_)
Selections(n) ==
    IF n = 0 THEN {<<>>}
    ELSE Selections(n - 1)
         \cup {Append(s, f) : s \in {t \in Selections(n - 1) : Len(t) = n - 1},
                              f \in VideoFiles}

VideoSelections == {s \in Selections(MaxVideos) : \A j, k \in 1..Len(s) : j # k => s[j] # s[k]}

AudioFiles == { <<"/", "m", "/", "a", ".", "m", "p", "3">> }

Answers == { <<"y">>, <<"Y">>, <<"n">>, <<>> }

VideoDurations == {None} \cup {Some(d) : d \in 0..MaxDur}

AudioDurations == {None} \cup {Some(d) : d \in 0..MaxAudioDur}

(* ------------------------------ main --------------------------------- *)
Abort(why) ==
    /\ pc' = "Aborted"
    /\ outcome' = why

\* lines 75-77
SelectVideos ==
    /\ pc = "SelectVideos"
    /\ \E paths \in VideoSelections :
          /\ video_paths' = paths
          /\ called' = called \cup {"pick_videos"}
          /\ IF paths = <<>>
             THEN Abort("UserCancelled")
             ELSE pc' = "ConfirmVideos" /\ UNCHANGED outcome
    /\ UNCHANGED <<clips, total_dur, audio_paths, audio, audio_dur, export_name,
                   output_path, loops, seq, final_video, final, opened, closed>>
    /\ UNCHANGED <<fs, sspVars, returned, written, loadAttempts>>

\* a declined confirmation that opens the video dialog again
ConfirmVideosRetry ==
    /\ pc = "ConfirmVideos"
    /\ \E answer \in Answers :
          IF Lower(answer) # <<"y">>
          THEN pc' = "SelectVideos"
          ELSE pc' = "LoadVideos"
    /\ called' = called \cup {"input_confirm"}
    /\ UNCHANGED <<video_paths, clips, total_dur, audio_paths, audio, audio_dur,
                   export_name, output_path, loops, seq, final_video, final, opened,
                   closed, outcome>>
    /\ UNCHANGED <<fs, sspVars, returned, written, loadAttempts>>

\* lines 79-84
ConfirmVideos ==
    /\ pc = "ConfirmVideos"
    /\ \E answer \in Answers :
          IF Lower(answer) # <<"y">>
          THEN Abort("Declined")
          ELSE pc' = "LoadVideos" /\ UNCHANGED outcome
    /\ called' = called \cup {"input_confirm"}
    /\ UNCHANGED <<video_paths, clips, total_dur, audio_paths, audio, audio_dur,
                   export_name, output_path, loops, seq, final_video, final, opened,
                   closed>>
    /\ UNCHANGED <<fs, sspVars, returned, written, loadAttempts>>

ClipHandle(k) == <<"clip", k>>

\* lines 85-92: one iteration of the loading loop
LoadVideo ==
    /\ pc = "LoadVideos"
    /\ Len(clips) < Len(video_paths)
    /\ called' = called \cup {"VideoFileClip"}
    /\ loadAttempts' = loadAttempts + 1
    /\ \/ \E d \in VideoDurations :
             /\ clips' = Append(clips, [path |-> video_paths[Len(clips) + 1],
                                        duration |-> d,
                                        h |-> ClipHandle(Len(clips) + 1)])
             /\ total_dur' = total_dur + OrZero(d)
             /\ opened' = opened \cup {ClipHandle(Len(clips) + 1)}
             /\ UNCHANGED <<pc, outcome>>
       \/ /\ Abort("LoadError")
          /\ UNCHANGED <<clips, total_dur, opened>>
    /\ UNCHANGED <<video_paths, audio_paths, audio, audio_dur, export_name,
                   output_path, loops, seq, final_video, final, closed>>
    /\ UNCHANGED <<fs, sspVars, returned, written>>

\* the empty-content test that lets a total of 0 through
IsEmptyContentStrict(total) == total < 0

\* line 94
IsEmptyContent(total) == total <= 0

\* lines 94-97: after the loop
CheckTotal ==
    /\ pc = "LoadVideos"
    /\ Len(clips) = Len(video_paths)
    /\ IF IsEmptyContent(total_dur)
       THEN Abort("EmptyContentError")
       ELSE pc' = "SelectAudio" /\ UNCHANGED outcome
    /\ UNCHANGED <<video_paths, clips, total_dur, audio_paths, audio, audio_dur,
                   export_name, output_path, loops, seq, final_video, final, opened,
                   closed, called>>
    /\ UNCHANGED <<fs, sspVars, returned, written, loadAttempts>>

\* lines 100-102
SelectAudio ==
    /\ pc = "SelectAudio"
    /\ \E paths \in {<<>>} \cup {<<p>> : p \in AudioFiles} :
          /\ audio_paths' = paths
          /\ IF paths = <<>>
             THEN Abort("UserCancelled")
             ELSE pc' = "LoadAudio" /\ UNCHANGED outcome
    /\ called' = called \cup {"pick_audio"}
    /\ UNCHANGED <<video_paths, clips, total_dur, audio, audio_dur, export_name,
                   output_path, loops, seq, final_video, final, opened, closed>>
    /\ UNCHANGED <<fs, sspVars, returned, written, loadAttempts>>

AudioHandle == <<"audio", 0>>

\* lines 104-111
LoadAudio ==
    /\ pc = "LoadAudio"
    /\ called' = called \cup {"AudioFileClip"}
    /\ \/ \E d \in AudioDurations :
             /\ audio' = [path |-> audio_paths[1], duration |-> d, h |-> AudioHandle]
             /\ audio_dur' = OrZero(d)
             /\ opened' = opened \cup {AudioHandle}
             /\ pc' = "ResolveOutputPath"
             /\ UNCHANGED outcome
       \/ /\ Abort("LoadError")
          /\ UNCHANGED <<audio, audio_dur, opened>>
    /\ UNCHANGED <<video_paths, clips, total_dur, audio_paths, export_name,
                   output_path, loops, seq, final_video, final, closed>>
    /\ UNCHANGED <<fs, sspVars, returned, written, loadAttempts>>

\* lines 114-115
DefaultExportName(audio_path) == Splitext(Basename(audio_path))[1] \o MusicVideoSuffix

\* lines 117-118
ExportName(typed, audio_path) ==
    IF Strip(typed) # <<>> THEN Strip(typed) ELSE DefaultExportName(audio_path)

\* lines 114-118: the name is read at the prompt
ReadName ==
    /\ pc = "ResolveOutputPath"
    /\ "input_name" \notin called
    /\ \E typed \in TypedNames : export_name' = ExportName(typed, audio.path)
    /\ called' = called \cup {"input_name"}
    /\ UNCHANGED <<pc, video_paths, clips, total_dur, audio_paths, audio, audio_dur,
                   output_path, loops, seq, final_video, final, opened, closed, outcome>>
    /\ UNCHANGED <<fs, sspVars, returned, written, loadAttempts>>

\* line 119: safe_save_path(export_name, ".mp4") is entered
ResolveOutputPath ==
    /\ pc = "ResolveOutputPath"
    /\ "input_name" \in called
    /\ SspEnter(export_name, Extension)
    /\ UNCHANGED <<fs, returned, mainVars>>

\* lines 61-63 within main's call
ResolveWhile ==
    /\ pc = "ResolveOutputPath"
    /\ SspWhile
    /\ UNCHANGED <<fs, returned, mainVars>>

\* lines 64 and 119-120: safe_save_path returns to main
ResolveReturn ==
    /\ pc = "ResolveOutputPath"
    /\ spc = "return"
    /\ output_path' = candidate
    /\ spc' = "idle"
    /\ pc' = "BuildSequence"
    /\ UNCHANGED <<video_paths, clips, total_dur, audio_paths, audio, audio_dur,
                   export_name, loops, seq, final_video, final, opened, closed,
                   outcome, called>>
    /\ UNCHANGED <<fs, returned, base_name, name, candidate, root, ext, i, checks, fsAtCall, written, loadAttempts>>

Max(a, b) == IF a >= b THEN a ELSE b

\* math.ceil(a / b) for b > 0
Ceil(a, b) == -((-a) \div b)

\* the loop count with the quotient rounded down
ComputeLoopsFloor(target, total) == Max(1, target \div total)

\* line 123
ComputeLoops(target, total) == Max(1, Ceil(target, total))

\* each clip repeated in place: a, a, b, b instead of a, b, a, b
RECURSIVE RepeatEach(_, _)
RepeatEach(cs, n) ==
    IF cs = <<>> THEN <<>>
    ELSE [k \in 1..Max(n, 0) |-> Head(cs)] \o RepeatEach(Tail(cs), n)

\* line 127: clips * loops
RECURSIVE Repeat(_, _)
Repeat(cs, n) == IF n <= 0 THEN <<>> ELSE cs \o Repeat(cs, n - 1)

\* line 128: the duration of concatenate_videoclips(seq, method="compose"),
\* the clips played one after the other
RECURSIVE ConcatDuration(_)
ConcatDuration(cs) ==
    IF cs = <<>> THEN 0 ELSE Head(cs).duration[1] + ConcatDuration(Tail(cs))

\* the trim test with the comparison turned around
NeedsTrimReversed(dur, target) == dur < target

\* line 129
NeedsTrim(dur, target) == dur > target

ConcatHandle == <<"concat", 0>>

SubclipHandle == <<"subclip", 0>>

FinalHandle == <<"final", 0>>

\* lines 129-130: the clip final_video names after the trim
Trimmed(dur, target) ==
    IF NeedsTrim(dur, target)
    THEN [h |-> SubclipHandle, duration |-> target]
    ELSE [h |-> ConcatHandle, duration |-> dur]

\* lines 123-131.  concatenate_videoclips adds up the clips' durations; a clip
\* that has none makes it raise, and main does not catch that.
BuildSequence ==
    /\ pc = "BuildSequence"
    /\ called' = called \cup {"concatenate_videoclips"}
    /\ \E n \in {ComputeLoops(audio_dur, total_dur)} :
       \E s \in {Repeat(clips, n)} :
          /\ loops' = n
          /\ seq' = s
          /\ IF \E k \in 1..Len(s) : s[k].duration = None
             THEN /\ Abort("Uncaught")
                  /\ UNCHANGED <<final_video, final, opened>>
             ELSE \E fv \in {Trimmed(ConcatDuration(s), audio_dur)} :
                  /\ final_video' = fv
                  /\ final' = [h |-> FinalHandle, duration |-> fv.duration,
                               audio |-> audio.h]
                  /\ opened' = opened \cup {ConcatHandle, FinalHandle, fv.h}
                  /\ pc' = "Export"
                  /\ UNCHANGED outcome
    /\ UNCHANGED <<video_paths, clips, total_dur, audio_paths, audio, audio_dur,
                   export_name, output_path, closed>>
    /\ UNCHANGED <<fs, sspVars, returned, written, loadAttempts>>

\* lines 135-141: write_videofile writes the file or raises
Export ==
    /\ pc = "Export"
    /\ called' = called \cup {"write_videofile"}
    /\ \/ /\ fs' = fs \cup {output_path}
          /\ written' = written \cup {output_path}
          /\ pc' = "Cleanup"
          /\ UNCHANGED outcome
       \/ /\ Abort("ExportError")
          /\ UNCHANGED <<fs, written>>
    /\ UNCHANGED <<video_paths, clips, total_dur, audio_paths, audio, audio_dur,
                   export_name, output_path, loops, seq, final_video, final, opened,
                   closed>>
    /\ UNCHANGED <<sspVars, returned, loadAttempts>>

\* line 142
Preview ==
    /\ pc = "Cleanup"
    /\ "qlmanage" \notin called
    /\ called' = called \cup {"qlmanage"}
    /\ UNCHANGED <<pc, video_paths, clips, total_dur, audio_paths, audio, audio_dur,
                   export_name, output_path, loops, seq, final_video, final, opened,
                   closed, outcome>>
    /\ UNCHANGED <<fs, sspVars, returned, written, loadAttempts>>

\* lines 145-149: the handles main closes
ClosedByCleanup ==
    {clips[k].h : k \in 1..Len(clips)} \cup {audio.h, final_video.h, final.h}

\* lines 145-150
Cleanup ==
    /\ pc = "Cleanup"
    /\ "qlmanage" \in called
    /\ closed' = closed \cup ClosedByCleanup
    /\ pc' = "Done"
    /\ UNCHANGED <<video_paths, clips, total_dur, audio_paths, audio, audio_dur,
                   export_name, output_path, loops, seq, final_video, final, opened,
                   outcome, called>>
    /\ UNCHANGED <<fs, sspVars, returned, written, loadAttempts>>

(* ------------------ safe_save_path called repeatedly ------------------ *)
PathCall ==
    /\ pc = "Caller"
    /\ Len(returned) < MaxCalls
    /\ \E base \in BaseNames : SspEnter(base, Extension)
    /\ UNCHANGED <<fs, returned, mainVars>>

PathWhile ==
    /\ pc = "Caller"
    /\ SspWhile
    /\ UNCHANGED <<fs, returned, mainVars>>

\* line 64: the caller gets the path, and makes a file there or does not
PathReturn ==
    /\ pc = "Caller"
    /\ spc = "return"
    /\ spc' = "idle"
    /\ \E create \in BOOLEAN :
          /\ returned' = Append(returned, [path |-> candidate, created |-> create])
          /\ fs' = IF create THEN fs \cup {candidate} ELSE fs
    /\ UNCHANGED <<base_name, name, candidate, root, ext, i, checks, fsAtCall, mainVars>>

(* --------------------------- specifications --------------------------- *)
InitLocals ==
    /\ base_name = <<>> /\ name = <<>> /\ candidate = <<>> /\ root = <<>> /\ ext = <<>>
    /\ i = 0 /\ spc = "idle" /\ checks = 0 /\ fsAtCall = {}
    /\ returned = <<>>
    /\ video_paths = <<>> /\ clips = <<>> /\ total_dur = 0
    /\ audio_paths = <<>> /\ audio = None /\ audio_dur = 0
    /\ export_name = <<>> /\ output_path = None
    /\ loops = 0 /\ seq = <<>> /\ final_video = None /\ final = None
    /\ opened = {} /\ closed = {} /\ outcome = "" /\ called = {}
    /\ written = {} /\ loadAttempts = 0

Init ==
    /\ fs \in {d \in InitialDesktops :
                d \subseteq {DesktopFile(<<"a">>), DesktopFile(<<"a", "-", "1">>),
                             DesktopFile(<<".">>)}}
    /\ pc = "SelectVideos"
    /\ InitLocals

Next ==
    \/ SelectVideos \/ ConfirmVideos \/ LoadVideo \/ CheckTotal
    \/ SelectAudio \/ LoadAudio
    \/ ReadName \/ ResolveOutputPath \/ ResolveWhile \/ ResolveReturn
    \/ BuildSequence \/ Export \/ Preview \/ Cleanup

\* one run of main
Spec == Init /\ [][Next]_vars

\* main is sequential code: a step that can be taken is taken
FairSpec == Init /\ [][Next]_vars /\ WF_vars(Next)

InitPath ==
    /\ fs \in InitialDesktops
    /\ pc = "Caller"
    /\ InitLocals

NextPath == PathCall \/ PathWhile \/ PathReturn

\* safe_save_path called up to MaxCalls times
SpecPath == InitPath /\ [][NextPath]_vars

(* ------------------------------ claims ------------------------------- *)
Min(a, b) == IF a <= b THEN a ELSE b

Terminated == pc \in {"Done", "Aborted"}

\* the sequence was built: BuildSequence ran and concatenate_videoclips returned
SequenceBuilt == pc \in {"Export", "Cleanup", "Done"} \/ outcome = "ExportError"

\* sum(D) over the loaded clips, a missing duration counted as 0
RECURSIVE SumOrZero(_)
SumOrZero(cs) == IF cs = <<>> THEN 0 ELSE OrZero(Head(cs).duration) + SumOrZero(Tail(cs))

\* C1: for a non-empty clip list with total = sum(durations) > 0 and an audio
\* duration T > 0, the loop count is at least 1, is the smallest integer with
\* loops * total >= T, and is 1 whenever T <= total.
C1_LoopCount ==
    ("concatenate_videoclips" \in called /\ total_dur > 0 /\ audio_dur > 0) =>
        /\ clips # <<>>
        /\ total_dur = SumOrZero(clips)
        /\ loops >= 1
        /\ loops * total_dur >= audio_dur
        /\ (loops - 1) * total_dur < audio_dur
        /\ (audio_dur <= total_dur => loops = 1)

\* two clips of 1 tick each under 3 ticks of audio: two loops are needed
C1_Witness ==
    /\ "concatenate_videoclips" \in called
    /\ Len(clips) = 2
    /\ total_dur = 2
    /\ audio_dur = 3
    /\ loops = 2

\* C2: the sequence handed to the exporter is never longer than the audio and
\* lasts min(T, sum(D) * loops); it is trimmed to the audio's length exactly
\* when the concatenation is longer than the audio, and is otherwise the
\* concatenation as it is.
C2_SequenceDuration ==
    SequenceBuilt =>
        /\ final.duration <= audio_dur
        /\ final.duration = Min(audio_dur, SumOrZero(clips) * loops)
        /\ final.duration = final_video.duration
        /\ (final_video.h = SubclipHandle) = (ConcatDuration(seq) > audio_dur)
        /\ (final_video.h = ConcatHandle) = (ConcatDuration(seq) <= audio_dur)
        /\ (final_video.h = ConcatHandle => final.duration = ConcatDuration(seq))

\* two loops of 2 ticks trimmed to 3 ticks of audio
C2_Witness ==
    /\ pc = "Export"
    /\ loops = 2
    /\ ConcatDuration(seq) = 4
    /\ audio_dur = 3
    /\ final_video.h = SubclipHandle
    /\ final.duration = 3

\* C3: safe_save_path never returns a path that exists when it returns, so
\* the path a call returns differs from every path an earlier call returned
\* and a file was made at.
C3_NeverExisting ==
    /\ spc = "return" => candidate \notin fs
    /\ spc = "return" =>
          \A j \in 1..Len(returned) : returned[j].created => candidate # returned[j].path
    /\ \A j, k \in 1..Len(returned) :
          (j < k /\ returned[j].created) => returned[k].path # returned[j].path

\* a third call returns after two calls whose files were made, having stepped
\* over both of them
C3_Witness ==
    /\ pc = "Caller"
    /\ spc = "return"
    /\ Len(returned) = 2
    /\ returned[1].created /\ returned[2].created
    /\ returned[1].path \in fsAtCall /\ returned[2].path \in fsAtCall
    /\ checks >= 3

\* C4: a failure at LoadVideos, LoadAudio or Export ends the run with every
\* handle opened so far closed and no output file produced.
C4_FailureReleasesHandles ==
    (pc = "Aborted" /\ outcome \in {"LoadError", "ExportError"}) =>
        /\ opened \subseteq closed
        /\ written = {}

\* C5: on the success path and on every user cancellation, every handle that
\* was opened is closed when main returns.
C5_CleanupOnReturn ==
    (pc = "Done" \/ (pc = "Aborted" /\ outcome \in {"UserCancelled", "Declined"})) =>
        opened \subseteq closed

\* C6: the sequence has n * loops elements and its element at 0-based index i
\* is the clip loaded from the (i mod n)-th selected path.
C6_OrderPreserved ==
    /\ Len(clips) <= Len(video_paths)
    /\ \A k \in 1..Len(clips) : clips[k].path = video_paths[k]
    /\ "concatenate_videoclips" \in called =>
          /\ Len(clips) = Len(video_paths)
          /\ Len(seq) = Len(clips) * loops
          /\ \A k \in 1..Len(seq) :
                /\ seq[k] = clips[((k - 1) % Len(clips)) + 1]
                /\ seq[k].path = video_paths[((k - 1) % Len(video_paths)) + 1]

\* two clips looped at least twice
C6_Witness ==
    /\ pc = "Export"
    /\ Len(clips) = 2
    /\ loops >= 2
    /\ Len(seq) >= 4

Rank(state) ==
    CASE state = "SelectVideos" -> 1
      [] state = "ConfirmVideos" -> 2
      [] state = "LoadVideos" -> 3
      [] state = "SelectAudio" -> 4
      [] state = "LoadAudio" -> 5
      [] state = "ResolveOutputPath" -> 6
      [] state = "BuildSequence" -> 7
      [] state = "Export" -> 8
      [] state = "Cleanup" -> 9
      [] state = "Done" -> 10
      [] OTHER -> 0

BeforeExport ==
    {"pick_videos", "input_confirm", "VideoFileClip", "pick_audio", "AudioFileClip",
     "input_name", "concatenate_videoclips"}

\* Export is entered with the videos confirmed and loaded, the audio loaded
\* and the output path resolved; the preview runs only after a successful export
ExportPrerequisites ==
    /\ pc = "Export" =>
          /\ BeforeExport \subseteq called
          /\ video_paths # <<>>
          /\ Len(clips) = Len(video_paths)
          /\ AudioHandle \in opened
          /\ output_path = candidate
          /\ output_path \notin fs
    /\ "qlmanage" \in called =>
          /\ "write_videofile" \in called
          /\ outcome = ""
          /\ written = {output_path}

\* a change of workflow state goes one state forward, or to Aborted, and no
\* state is left once the run is Done or Aborted
StepsForward ==
    pc' # pc =>
        /\ pc \notin {"Done", "Aborted"}
        /\ Rank(pc') = Rank(pc) + 1 \/ pc' = "Aborted"

\* C7: the workflow states are visited in the fixed order, each at most once,
\* the only other transition is to Aborted, Export comes after loading and
\* path resolution, and the preview after a successful export.
C7_LinearWorkflow == [](Rank(pc) >= 1 \/ pc = "Aborted") /\ []ExportPrerequisites /\ [][StepsForward]_vars

\* the whole chain was walked to Done
C7_Witness ==
    /\ pc = "Done"
    /\ BeforeExport \cup {"write_videofile", "qlmanage"} \subseteq called

\* loading is over, the empty-content test was made, and the total is not positive
LoadedNothing ==
    /\ video_paths # <<>>
    /\ Len(clips) = Len(video_paths)
    /\ pc # "LoadVideos"
    /\ SumOrZero(clips) <= 0

\* C8: when the loaded durations sum to total <= 0 the run aborts with the
\* empty-content error right after LoadVideos: no audio dialog, no output
\* path, no export, no file written.
C8_EmptyContent ==
    /\ LoadedNothing =>
          /\ pc = "Aborted"
          /\ outcome = "EmptyContentError"
          /\ called \subseteq {"pick_videos", "input_confirm", "VideoFileClip"}
          /\ output_path = None
          /\ spc = "idle" /\ checks = 0
          /\ written = {}
    /\ outcome = "EmptyContentError" => LoadedNothing

\* a clip without a duration and a clip of duration 0 were loaded
C8_Witness ==
    /\ outcome = "EmptyContentError"
    /\ Len(clips) = 2
    /\ clips[1].duration = None
    /\ clips[2].duration = Some(0)

\* the path C9 describes for the current call
RECURSIVE FirstFree(_, _, _)
FirstFree(nm, n, files) ==
    IF PathJoin(Desktop, nm \o <<"-">> \o Str(n) \o Extension) \notin files
    THEN PathJoin(Desktop, nm \o <<"-">> \o Str(n) \o Extension)
    ELSE FirstFree(nm, n + 1, files)

DescribedPath(base, files) ==
    LET nm == IF Strip(base) = <<>> THEN DefaultName ELSE Strip(base)
    IN IF PathJoin(Desktop, nm \o Extension) \notin files
       THEN PathJoin(Desktop, nm \o Extension)
       ELSE FirstFree(nm, 1, files)

\* C9: safe_save_path returns directory/name+extension when that path does
\* not exist, and otherwise directory/name-N+extension for the smallest
\* N >= 1 whose path does not exist; a base name that is empty after trimming
\* is replaced by "Untitled music video".
C9_ReturnedPath == spc = "return" => candidate = DescribedPath(base_name, fs)

\* the files on disk the current call can collide with
Colliding ==
    {p \in fsAtCall :
        \/ p = FirstCandidate(base_name, Extension)
        \/ \E n \in 1..Cardinality(fsAtCall) : p = NumberedCandidate(root, n, ext)}

LoopBounds ==
    /\ loadAttempts <= Len(video_paths)
    /\ spc # "idle" => checks <= Cardinality(Colliding) + 1

\* C10: every run of main reaches Done or Aborted; the loading loop runs at
\* most once per selected path, and safe_save_path makes at most k + 1
\* existence checks when k colliding files exist.
C10_Terminates == <>Terminated /\ []LoopBounds

\* a run that ended after three existence checks over two colliding files
C10_Witness ==
    /\ pc = "Done"
    /\ loadAttempts = 2
    /\ checks = 3
    /\ Cardinality(Colliding) = 2

====
